---- MODULE Spec2Model ----
(***************************************************************************)
(* Model of src/main.rs: `subtract` loads one query signature, derives the *)
(* hashes to remove, reads a list of target signature paths and, on a      *)
(* rayon data-parallel map, removes those hashes from every target and     *)
(* writes the result under <output>/<ksize>/<file name>.                   *)
(*                                                                         *)
(* Optional values (Rust Option<T>) are sequences of length 0 or 1.        *)
(* A hash set is kept the way the sketch keeps it: an ascending sequence   *)
(* without duplicates.                                                     *)
(***************************************************************************)
EXTENDS Integers, Sequences, FiniteSets, TLC

(* ------------------------------ bounds --------------------------------- *)
\* hash values are 1..MaxHash
MaxHash == 2
\* longest target list of the short runs
MaxTargets == 3
\* largest rayon pool of the short runs
MaxWorkers == 2
\* length of the one long target list (run on a pool of one thread)
LongList == 1001

(* ------------------------- program constants --------------------------- *)
\* -k/--ksize default
DefaultKsize == 31
\* -s/--scaled default
DefaultScaled == 10
\* progress line every LogInterval targets
LogInterval == 1000

VARIABLES
  io,               \* environment: "ok", or "flaky" (any I/O call may fail)
  queryFile,        \* content of the file named by `query`
  siglistFile,      \* content of the file named by `siglist`
  fs,               \* content of every target signature file, by path
  nthreads,         \* size of the rayon pool
  phase,            \* position of the main thread in `subtract`
  outcome,          \* "none" | "ok" | "err" (Err returned) | "panic"
  hashes_to_remove, \* Option: the query's mins
  search_sigs,      \* Option: the paths read from siglist
  dir,              \* outdir: "absent" | "preexisting" | "ensured"
  files,            \* the files under outdir, by file name
  processed_sigs,   \* the AtomicUsize
  log,              \* the counts reported by "Processed {} sigs" lines
  rng,              \* per pool thread: the slice of search_sigs it still owns
  wk,               \* per pool thread: the closure invocation it is in
  panicked,         \* some closure invocation has panicked
  begun,            \* history: indices of the targets whose closure has started
  wrote,            \* history: indices of the targets whose output file was created
  failed            \* history: indices of the targets whose closure panicked

vars == <<io, queryFile, siglistFile, fs, nthreads, phase, outcome,
          hashes_to_remove, search_sigs, dir, files, processed_sigs, log,
          rng, wk, panicked, begun, wrote, failed>>

inputs == <<io, queryFile, siglistFile, fs, nthreads>>

(* --------------------------- sketches ---------------------------------- *)
Hashes == 1..MaxHash

RECURSIVE Ascending(_)
\* the ascending sequence of the members of a finite set of numbers
Ascending(S) ==
  IF S = {} THEN <<>>
  ELSE LET m == CHOOSE x \in S : \A y \in S : x <= y
       IN  <<m>> \o Ascending(S \ {m})

ToSet(s) == {s[i] : i \in 1..Len(s)}

\* every value a sketch's mins can take
AllMins == {Ascending(S) : S \in SUBSET Hashes}

\* max_hash_for_scaled is one-to-one on the scaled values used here; the
\* bound is carried as the scaled value it was derived from
max_hash_for_scaled(scaled) == [scaled |-> scaled]

MinHash(k, hf, scaled, mins) ==
  [ksize |-> k, hash_function |-> hf, max_hash |-> max_hash_for_scaled(scaled),
   mins |-> mins]

\* the template sketch of lines 47-54: num 0, no mins
template ==
  MinHash(DefaultKsize, "murmur64_protein", DefaultScaled, <<>>)

\* KmerMinHash::check_compatible, as select_sketch uses it: the mins play no part
check_compatible(mh, tmpl) ==
  /\ mh.ksize = tmpl.ksize
  /\ mh.hash_function = tmpl.hash_function
  /\ mh.max_hash = tmpl.max_hash

RECURSIVE ScanSketches(_, _, _)
ScanSketches(sketches, i, tmpl) ==
  IF i > Len(sketches) THEN <<>>
  ELSE IF check_compatible(sketches[i], tmpl) THEN <<sketches[i]>>
  ELSE ScanSketches(sketches, i + 1, tmpl)

\* Signature::select_sketch: the first compatible sketch, in stored order
select_sketch(sig, tmpl) == ScanSketches(sig.sketches, 1, tmpl)

\* KmerMinHash::remove_hash: drop the position holding h, when there is one
remove_hash(mins, h) ==
  IF \E p \in 1..Len(mins) : mins[p] = h
  THEN LET p == CHOOSE q \in 1..Len(mins) : mins[q] = h
       IN  SubSeq(mins, 1, p - 1) \o SubSeq(mins, p + 1, Len(mins))
  ELSE mins

RECURSIVE RemoveLoopStops(_, _, _)
\* variant of RemoveLoop: gives up at the first hash the sketch does not hold
RemoveLoopStops(mins, hashes, i) ==
  IF i > Len(hashes) \/ remove_hash(mins, hashes[i]) = mins THEN mins
  ELSE RemoveLoopStops(remove_hash(mins, hashes[i]), hashes, i + 1)

RECURSIVE RemoveLoop(_, _, _)
RemoveLoop(mins, hashes, i) ==
  IF i > Len(hashes) THEN mins
  ELSE RemoveLoop(remove_hash(mins, hashes[i]), hashes, i + 1)

\* KmerMinHash::remove_many(&hashes_to_remove), line 110
remove_many(mins, hashes) == RemoveLoop(mins, hashes, 1)

(* ------------------------- the query, lines 56-67 ---------------------- *)
RECURSIVE QueryLoopFirst(_, _, _)
\* variant of QueryLoop: a match never overwrites an earlier one
QueryLoopFirst(sigs, i, query) ==
  IF i > Len(sigs) THEN query
  ELSE LET sketch == select_sketch(sigs[i], template)
       IN  QueryLoopFirst(sigs, i + 1,
                          IF sketch # <<>> /\ query = <<>> THEN sketch ELSE query)

RECURSIVE QueryLoop(_, _, _)
\* the for loop of lines 58-64: every match overwrites `query`
QueryLoop(sigs, i, query) ==
  IF i > Len(sigs) THEN query
  ELSE LET sketch == select_sketch(sigs[i], template)
       IN  QueryLoop(sigs, i + 1, IF sketch # <<>> THEN sketch ELSE query)

\* mh.clone().into() builds a KmerMinHashBTree (a set of mins), and mins()
\* lists that set in ascending order
QueryMins(file) ==
  LET query == QueryLoop(file.sigs, 1, <<>>)
  IN  IF query = <<>> THEN <<>> ELSE <<Ascending(ToSet(query[1].mins))>>

(* --------------------------- the inputs -------------------------------- *)
Sig(name, sketches) == [name |-> name, sketches |-> sketches]
SigFile(sigs) == [ok |-> TRUE, sigs |-> sigs]
Malformed == [ok |-> FALSE, sigs |-> <<>>]

Match(mins) == MinHash(DefaultKsize, "murmur64_protein", DefaultScaled, mins)
OtherKsize(mins) == MinHash(21, "murmur64_protein", DefaultScaled, mins)
OtherHash(mins) == MinHash(DefaultKsize, "murmur64_DNA", DefaultScaled, mins)
OtherScaled(mins) == MinHash(DefaultKsize, "murmur64_protein", 1, mins)

Top == Ascending({MaxHash})
Low == Ascending({1})

QueryFiles ==
     {SigFile(<<Sig("q", <<Match(m)>>)>>) : m \in AllMins}
  \cup
     { \* two matching records: the later one wins
       SigFile(<<Sig("q1", <<Match(Low)>>), Sig("q2", <<OtherKsize(Low), Match(Top)>>)>>),
       \* a record without a match after a matching one
       SigFile(<<Sig("q1", <<Match(Top)>>), Sig("q2", <<OtherHash(Low)>>)>>),
       \* no record matches
       SigFile(<<Sig("q1", <<OtherKsize(Low)>>), Sig("q2", <<OtherScaled(Top)>>)>>),
       \* no record at all
       SigFile(<<>>),
       Malformed }

P(d, n) == [dir |-> d, name |-> n]

\* Path::file_name: the last component
file_name(path) == path.name

Paths == {P("a", "x"), P("b", "x"), P("a", "y"), P("a", "e"), P("a", "bad")}

\* the target files; h is the hash set of the sketch a/x is subtracted from
TargetFS(h) ==
  [p \in Paths |->
     CASE p = P("a", "x") ->
            SigFile(<<Sig("ax", <<OtherKsize(Low), Match(h), Match(Low)>>)>>)
       [] p = P("b", "x") ->
            SigFile(<<Sig("bx", <<Match(Ascending(Hashes))>>), Sig("bz", <<Match(Top)>>)>>)
       [] p = P("a", "y") ->
            SigFile(<<Sig("ay", <<OtherScaled(Top)>>), Sig("az", <<Match(Top)>>)>>)
       [] p = P("a", "e") -> SigFile(<<>>)
       [] OTHER -> Malformed]

RECURSIVE SeqsUpTo(_, _)
SeqsUpTo(S, n) ==
  IF n = 0 THEN {<<>>}
  ELSE LET shorter == SeqsUpTo(S, n - 1)
       IN  shorter \cup {Append(s, x) : s \in shorter, x \in S}

\* A list of paths is kept as its runs: <<[path, n], ...>> stands for n
\* consecutive lines holding path, then the next run.
Run(path, n) == [path |-> path, n |-> n]

RECURSIVE Runs(_)
\* a sequence of paths as runs of one line each
Runs(paths) ==
  IF paths = <<>> THEN <<>> ELSE <<Run(Head(paths), 1)>> \o Runs(Tail(paths))

RECURSIVE LenOf(_)
\* Vec::len
LenOf(list) == IF list = <<>> THEN 0 ELSE Head(list).n + LenOf(Tail(list))

RECURSIVE At(_, _)
\* the idx-th path, counted from 1
At(list, idx) ==
  IF idx <= Head(list).n THEN Head(list).path ELSE At(Tail(list), idx - Head(list).n)

ListFile(lines) == [ok |-> TRUE, lines |-> lines]
NoListFile == [ok |-> FALSE, lines |-> <<>>]

(* ----------------------------- state ----------------------------------- *)
Threads == 1..nthreads

Idle == [pc |-> "idle", idx |-> 0, search_sig |-> <<>>, search_mh |-> <<>>]

NoRange == [lo |-> 1, hi |-> 1]

Remaining(w) == rng[w].hi - rng[w].lo

NoFile == [state |-> "absent", sigs |-> <<>>, len |-> 0]

\* what is stored under outdir at file name n
FileAt(n) == IF n \in DOMAIN files THEN files[n] ELSE NoFile

Start ==
  /\ phase = "start"
  /\ outcome = "none"
  /\ hashes_to_remove = <<>>
  /\ search_sigs = <<>>
  /\ dir \in {"absent", "preexisting"}
  /\ files = <<>>
  /\ processed_sigs = 0
  /\ log = <<>>
  /\ rng = [w \in 1..nthreads |-> NoRange]
  /\ wk = [w \in 1..nthreads |-> Idle]
  /\ panicked = FALSE
  /\ begun = {}
  /\ wrote = {}
  /\ failed = {}

\* short runs: every query, every short list, every pool size
InitShort ==
  /\ io \in {"ok", "flaky"}
  /\ queryFile \in QueryFiles
  /\ siglistFile \in {ListFile(Runs(l)) : l \in SeqsUpTo(Paths, MaxTargets)} \cup {NoListFile}
  /\ fs \in {TargetFS(h) : h \in AllMins}
  /\ nthreads \in 1..MaxWorkers
  /\ Start

\* one long run, long enough for the counter to pass LogInterval
InitLong ==
  /\ io = "ok"
  /\ queryFile = SigFile(<<Sig("q", <<Match(Top)>>)>>)
  /\ siglistFile = ListFile(<<Run(P("a", "x"), LongList)>>)
  /\ fs = TargetFS(Ascending(Hashes))
  /\ nthreads = 1
  /\ Start

Init == InitShort \/ InitLong

(* ------------------------ the main thread ------------------------------ *)
Die(how) ==
  /\ phase' = "done"
  /\ outcome' = how

\* lines 56-67: Signature::from_path(query).unwrap(), the loop, query.unwrap()
LoadQuery ==
  /\ phase = "start"
  /\ \E readFails \in (IF io = "flaky" THEN BOOLEAN ELSE {FALSE}) :
       LET query == QueryMins(queryFile)
       IN  IF readFails \/ ~queryFile.ok \/ query = <<>>
           THEN /\ Die("panic")
                /\ UNCHANGED hashes_to_remove
           ELSE /\ phase' = "query_loaded"
                /\ hashes_to_remove' = query
                /\ UNCHANGED outcome
  /\ UNCHANGED <<inputs, search_sigs, dir, files, processed_sigs, log, rng, wk,
                 panicked, begun, wrote, failed>>

\* lines 70-79: File::open(siglist)?, then one PathBuf per line
LoadSiglist ==
  /\ phase = "query_loaded"
  /\ \E openFails \in (IF io = "flaky" THEN BOOLEAN ELSE {FALSE}) :
       IF openFails \/ ~siglistFile.ok
       THEN /\ Die("err")
            /\ UNCHANGED search_sigs
       ELSE /\ phase' = "siglist_loaded"
            /\ search_sigs' = <<siglistFile.lines>>
            /\ UNCHANGED outcome
  /\ UNCHANGED <<inputs, hashes_to_remove, dir, files, processed_sigs, log, rng,
                 wk, panicked, begun, wrote, failed>>

\* variant of create_dir_all: create_dir, an error when the directory is there
create_dir(d) == [ok |-> d = "absent", dir |-> "ensured"]

\* create_dir_all(&outdir): Ok when the directory is already there
create_dir_all(d) == [ok |-> TRUE, dir |-> "ensured"]

\* lines 81-93: create_dir_all(&outdir)?, the counter, and par_iter() handing
\* the whole list to the calling pool thread
StartBatch ==
  /\ phase = "siglist_loaded"
  /\ \E mkdirFails \in (IF io = "flaky" THEN BOOLEAN ELSE {FALSE}) :
       IF mkdirFails \/ ~create_dir_all(dir).ok
       THEN /\ Die("err")
            /\ UNCHANGED <<dir, rng>>
       ELSE /\ phase' = "running"
            /\ dir' = create_dir_all(dir).dir
            /\ rng' = [rng EXCEPT ![1] = [lo |-> 1, hi |-> LenOf(search_sigs[1]) + 1]]
            /\ UNCHANGED outcome
  /\ UNCHANGED <<inputs, hashes_to_remove, search_sigs, files, processed_sigs,
                 log, wk, panicked, begun, wrote, failed>>

\* for_each returns once every slice is drained and every closure has ended;
\* a panic of any closure is then resumed in the caller, else Ok(()) (line 121)
Finish ==
  /\ phase = "running"
  /\ \A w \in Threads : wk[w].pc = "idle" /\ Remaining(w) = 0
  /\ Die(IF panicked THEN "panic" ELSE "ok")
  /\ UNCHANGED <<inputs, hashes_to_remove, search_sigs, dir, files,
                 processed_sigs, log, rng, wk, panicked, begun, wrote, failed>>

(* ---------------- the closure of lines 93-119, per pool thread --------- *)
\* search_sigs.len(), and the path search_sigs holds at idx (from 1)
NumTargets == IF search_sigs = <<>> THEN 0 ELSE LenOf(search_sigs[1])
Target(idx) == At(search_sigs[1], idx)

\* variant of fetch_add: a load, nothing is added
atomic_load(counter) == [previous |-> counter, stored |-> counter]

\* AtomicUsize::fetch_add(1, SeqCst): the value before, and the value stored
fetch_add(counter) == [previous |-> counter, stored |-> counter + 1]

\* variant of ShouldLog: the test is made on the value after the increment
ShouldLogAfter(i) == (i + 1) % LogInterval = 0

\* line 95
ShouldLog(i) == i % LogInterval = 0

\* the closure panics: the rest of the sequential leaf it ran in is skipped
\* (up to `skip` more targets of this thread's slice), the thread goes on with
\* the other jobs, and the panic is resumed when for_each returns
Unwind(w, skip) ==
  /\ wk' = [wk EXCEPT ![w] = Idle]
  /\ rng' = [rng EXCEPT ![w].lo = @ + skip]
  /\ panicked' = TRUE
  /\ failed' = failed \cup {wk[w].idx}

Panic(w) == \E skip \in 0..Remaining(w) : Unwind(w, skip)

MayFail == IF io = "flaky" THEN BOOLEAN ELSE {FALSE}

\* lines 94-97
Begin(w) ==
  /\ phase = "running"
  /\ wk[w].pc = "idle"
  /\ Remaining(w) > 0
  /\ LET i == fetch_add(processed_sigs).previous
     IN  /\ processed_sigs' = fetch_add(processed_sigs).stored
         /\ log' = IF ShouldLog(i) THEN Append(log, i) ELSE log
  /\ wk' = [wk EXCEPT ![w] = [Idle EXCEPT !.pc = "began", !.idx = rng[w].lo]]
  /\ rng' = [rng EXCEPT ![w].lo = @ + 1]
  /\ begun' = begun \cup {rng[w].lo}
  /\ UNCHANGED <<inputs, phase, outcome, hashes_to_remove, search_sigs, dir,
                 files, panicked, wrote, failed>>

\* variant of swap_remove_0: pop(), the last record of the file
pop_last(sigs) == IF Len(sigs) = 0 THEN <<>> ELSE <<sigs[Len(sigs)]>>

\* Signature::from_path(..)...swap_remove(0): the first record of the file
\* (a panic when the file holds none)
swap_remove_0(sigs) == IF Len(sigs) = 0 THEN <<>> ELSE <<sigs[1]>>

\* lines 99-110: the record, its matching sketch, and the sketch after
\* remove_many; <<>> wherever the code panics
Subtracted(file, hashes) ==
  LET first == swap_remove_0(file.sigs)
      sketch == IF first = <<>> THEN <<>> ELSE select_sketch(first[1], template)
  IN  IF ~file.ok \/ sketch = <<>> THEN <<>>
      ELSE <<[search_sig |-> first[1],
              search_mh |-> [sketch[1] EXCEPT !.mins = remove_many(@, hashes)]]>>

Load(w) ==
  /\ phase = "running"
  /\ wk[w].pc = "began"
  /\ \E readFails \in MayFail :
       LET filename == Target(wk[w].idx)
           got == Subtracted(fs[filename], hashes_to_remove[1])
       IN  IF readFails \/ got = <<>>
           THEN Panic(w)
           ELSE /\ wk' = [wk EXCEPT ![w].pc = "subtracted",
                                    ![w].search_sig = <<got[1].search_sig>>,
                                    ![w].search_mh = <<got[1].search_mh>>]
                /\ UNCHANGED <<rng, panicked, failed>>
  /\ UNCHANGED <<inputs, phase, outcome, hashes_to_remove, search_sigs, dir,
                 files, processed_sigs, log, begun, wrote>>

\* lines 112-113: outdir joined with the target's file name
OutName(idx) == file_name(Target(idx))

\* line 115: File::create(path).unwrap() creates or truncates
Create(w) ==
  /\ phase = "running"
  /\ wk[w].pc = "subtracted"
  /\ \E createFails \in MayFail :
       IF createFails
       THEN /\ Panic(w)
            /\ UNCHANGED <<files, wrote>>
       ELSE /\ files' = (OutName(wk[w].idx) :> [state |-> "empty", sigs |-> <<>>, len |-> 0]) @@ files
            /\ wk' = [wk EXCEPT ![w].pc = "created"]
            /\ wrote' = wrote \cup {wk[w].idx}
            /\ UNCHANGED <<rng, panicked, failed>>
  /\ UNCHANGED <<inputs, phase, outcome, hashes_to_remove, search_sigs, dir,
                 processed_sigs, log, begun>>

\* lines 116-117: only the subtracted sketch stays in the signature
Repacked(search_sig, search_mh) == [search_sig EXCEPT !.sketches = <<search_mh>>]

\* line 118: to_writer(&mut out, &[search_sig]).unwrap() fills the BufWriter;
\* an error of a write it has to push through is a panic
Serialize(w) ==
  /\ phase = "running"
  /\ wk[w].pc = "created"
  /\ \E writeFails \in MayFail :
       IF writeFails
       THEN Panic(w)
       ELSE /\ wk' = [wk EXCEPT ![w].pc = "buffered",
                                ![w].search_sig =
                                   <<Repacked(wk[w].search_sig[1], wk[w].search_mh[1])>>]
            /\ UNCHANGED <<rng, panicked, failed>>
  /\ UNCHANGED <<inputs, phase, outcome, hashes_to_remove, search_sigs, dir,
                 files, processed_sigs, log, begun, wrote>>

\* length of the JSON text of a one-element collection, up to a constant: the
\* signatures of the target files have names of one length and hashes of one
\* digit, so the texts differ in length by their number of hashes only
TextLen(sigs) == Len(sigs[1].sketches[1].mins)

\* the text landing, from offset 0, on what the file holds: bytes another
\* writer put there since this writer's truncation stay beyond the end of
\* this text, which leaves a mix of the two texts
Landed(old, sigs) ==
  IF old.len > TextLen(sigs)
  THEN [state |-> "garbled", sigs |-> <<>>, len |-> old.len]
  ELSE [state |-> "full", sigs |-> sigs, len |-> TextLen(sigs)]

\* line 119: `out` goes out of scope; BufWriter's drop flushes what is
\* buffered and ignores the error of that flush
DropWriter(w) ==
  /\ phase = "running"
  /\ wk[w].pc = "buffered"
  /\ \E flushFails \in MayFail :
       IF flushFails
       THEN UNCHANGED files
       ELSE files' = (OutName(wk[w].idx) :>
                        Landed(FileAt(OutName(wk[w].idx)), <<wk[w].search_sig[1]>>)) @@ files
  /\ wk' = [wk EXCEPT ![w] = Idle]
  /\ UNCHANGED <<inputs, phase, outcome, hashes_to_remove, search_sigs, dir,
                 processed_sigs, log, rng, panicked, begun, wrote, failed>>

\* an idle pool thread with nothing left takes the upper part of another
\* thread's slice (rayon splits slices in two and lets idle threads steal)
Steal(w, v) ==
  /\ phase = "running"
  /\ w # v
  /\ wk[w].pc = "idle"
  /\ Remaining(w) = 0
  /\ \E mid \in (rng[v].lo + (IF wk[v].pc = "idle" THEN 1 ELSE 0))..(rng[v].hi - 1) :
       rng' = [rng EXCEPT ![w] = [lo |-> mid, hi |-> rng[v].hi],
                          ![v] = [lo |-> rng[v].lo, hi |-> mid]]
  /\ UNCHANGED <<inputs, phase, outcome, hashes_to_remove, search_sigs, dir,
                 files, processed_sigs, log, wk, panicked, begun, wrote, failed>>

Next ==
  \/ LoadQuery
  \/ LoadSiglist
  \/ StartBatch
  \/ Finish
  \/ \E w \in Threads : Begin(w)
  \/ \E w \in Threads : Load(w)
  \/ \E w \in Threads : Create(w)
  \/ \E w \in Threads : Serialize(w)
  \/ \E w \in Threads : DropWriter(w)
  \/ \E w, v \in Threads : Steal(w, v)

Spec == Init /\ [][Next]_vars

(* ======================= the claims, C1 to C10 ========================= *)
\* positions of the sketches of a record that the template selects
MatchAt(sig) ==
  {j \in 1..Len(sig.sketches) :
     /\ sig.sketches[j].ksize = DefaultKsize
     /\ sig.sketches[j].hash_function = "murmur64_protein"
     /\ sig.sketches[j].max_hash = max_hash_for_scaled(DefaultScaled)}

Least(S) == CHOOSE x \in S : \A y \in S : x <= y
Greatest(S) == CHOOSE x \in S : \A y \in S : x >= y

TargetFile(idx) == fs[Target(idx)]

\* the target's file parses, has a first record, and that record has a match
GoodTarget(idx) ==
  /\ TargetFile(idx).ok
  /\ Len(TargetFile(idx).sigs) >= 1
  /\ MatchAt(TargetFile(idx).sigs[1]) # {}

\* H: the hash set of the sketch selected for the target
TargetH(idx) ==
  LET first == TargetFile(idx).sigs[1]
  IN  ToSet(first.sketches[Least(MatchAt(first))].mins)

\* M: the hash mask
Mask == ToSet(hashes_to_remove[1])

InClosure(w) == wk[w].pc \in {"subtracted", "created", "buffered"}

\* C1: the hash set a target's closure holds after remove_many, and the hash
\* set of every completely written output file, is exactly H minus M of that
\* target: nothing that was not in H, and everything of H that is not in M.
C1_ExactSetDifference ==
  /\ \A w \in Threads : InClosure(w) =>
       LET mins == wk[w].search_mh[1].mins
       IN  /\ ToSet(mins) = TargetH(wk[w].idx) \ Mask
           /\ Len(mins) = Cardinality(ToSet(mins))
  /\ \A n \in DOMAIN files : files[n].state = "full" =>
       \E idx \in wrote :
         /\ OutName(idx) = n
         /\ Len(files[n].sigs) = 1
         /\ Len(files[n].sigs[1].sketches) = 1
         /\ ToSet(files[n].sigs[1].sketches[1].mins) = TargetH(idx) \ Mask

\* a written file from which some hashes were removed and others kept
C1_Witness ==
  \E n \in DOMAIN files : \E idx \in wrote :
    /\ files[n].state = "full"
    /\ OutName(idx) = n
    /\ TargetH(idx) \cap Mask # {}
    /\ TargetH(idx) \ Mask # {}
    /\ ToSet(files[n].sigs[1].sketches[1].mins) = TargetH(idx) \ Mask

\* the signature a target's output file holds when targets are handled alone
ExpectedSig(idx) ==
  [name |-> TargetFile(idx).sigs[1].name,
   sketches |-> <<Match(Ascending(TargetH(idx) \ Mask))>>]

RECURSIVE InListOrder(_, _)
\* the output files after the targets i.. are handled one after the other
InListOrder(i, acc) ==
  IF i > NumTargets THEN acc
  ELSE InListOrder(i + 1,
         (OutName(i) :> [state |-> "full", sigs |-> <<ExpectedSig(i)>>,
                        len |-> Cardinality(TargetH(i) \ Mask)]) @@ acc)

\* C2: after a run that completes (no I/O failure in the environment), the
\* output files, paths and content, are those of handling the list in order
\* on one thread, whatever the pool size and the interleaving.
C2_SameFilesForEverySchedule ==
  (phase = "done" /\ outcome = "ok" /\ io = "ok") => files = InListOrder(1, <<>>)

\* C3: a target whose closure fails makes the run end in failure, and from
\* the error on every completely written output file stays, content unchanged.
C3_FatalErrorKeepsWrittenFiles ==
  /\ [](phase = "done" /\ failed # {} => outcome = "panic")
  /\ [][panicked =>
          \A n \in DOMAIN files : files[n].state = "full" =>
            n \in DOMAIN files' /\ files'[n] = files[n]]_vars

\* C4: no two targets create the same output path, and no two pool threads
\* have the same output file open for writing at the same time.
C4_DistinctOutputFiles ==
  /\ \A i, j \in wrote : i # j => OutName(i) # OutName(j)
  /\ \A w, v \in Threads :
       (w # v /\ wk[w].pc \in {"created", "buffered"}
              /\ wk[v].pc \in {"created", "buffered"})
       => OutName(wk[w].idx) # OutName(wk[v].idx)

\* records of the query file that have a sketch the template selects
QueryMatches == {r \in 1..Len(queryFile.sigs) : MatchAt(queryFile.sigs[r]) # {}}

\* C5: the mask is the hash set of the last query record with a matching
\* sketch; a query whose records all lack one ends the run in a panic with
\* the target list unread and the output directory not created.
C5_LastMatchingRecordWins ==
  /\ hashes_to_remove # <<>> =>
       /\ QueryMatches # {}
       /\ LET last == queryFile.sigs[Greatest(QueryMatches)]
          IN  Mask = ToSet(last.sketches[Least(MatchAt(last))].mins)
  /\ (phase # "start" /\ QueryMatches = {}) =>
       /\ phase = "done"
       /\ outcome = "panic"
       /\ search_sigs = <<>>
       /\ dir # "ensured"
       /\ files = <<>>
  /\ (phase # "start" /\ QueryMatches # {} /\ io = "ok") => hashes_to_remove # <<>>

\* a loaded query with two matching records of different hash sets
C5_Witness ==
  /\ phase = "query_loaded"
  /\ \E r1, r2 \in QueryMatches :
       /\ r1 < r2
       /\ queryFile.sigs[r1].sketches[Least(MatchAt(queryFile.sigs[r1]))].mins
            # queryFile.sigs[r2].sketches[Least(MatchAt(queryFile.sigs[r2]))].mins

\* C6: the counter never decreases, always equals the number of targets whose
\* closure has started (a target is counted before its signature is loaded),
\* and equals the length of the list after a run that completes.
C6_CounterCountsStartedTargets ==
  /\ [](/\ processed_sigs = Cardinality(begun)
        /\ \A w \in Threads : wk[w].pc # "idle" => wk[w].idx \in begun
        /\ (phase = "done" /\ outcome = "ok") => processed_sigs = NumTargets)
  /\ [][processed_sigs' >= processed_sigs]_vars

\* two closures running at once, both counted
C6_Witness ==
  /\ processed_sigs >= 2
  /\ \E w, v \in Threads : w # v /\ wk[w].pc = "began" /\ wk[v].pc # "idle"

\* C7 as stated: a line is logged exactly when the counter value after the
\* thread's own increment is a multiple of LogInterval, and reports that value.
C7_LogsOnPostIncrement ==
  [][processed_sigs' # processed_sigs =>
       /\ (log' # log) <=> (processed_sigs' % LogInterval = 0)
       /\ log' # log => log' = Append(log, processed_sigs')]_vars

\* C7 amended: a line is logged exactly when the counter value before the
\* thread's own increment (what fetch_add returns) is a multiple of
\* LogInterval, 0 included, and reports that value.
C7_LogsOnPreIncrement ==
  [][processed_sigs' # processed_sigs =>
       /\ (log' # log) <=> (processed_sigs % LogInterval = 0)
       /\ log' # log => log' = Append(log, processed_sigs)]_vars

\* the line of the LogInterval-th increment has been logged
C7_Witness == Len(log) = 2 /\ log[2] = LogInterval /\ processed_sigs > LogInterval

\* C8: a run that reports success has left, for every target, an output file
\* that is there and holds all of its serialized signature.
C8_NoSuccessWithMissingOutput ==
  (phase = "done" /\ outcome = "ok") =>
    \A idx \in 1..NumTargets : FileAt(OutName(idx)).state \notin {"absent", "empty"}

\* C9: with a loaded query and an empty list the run succeeds, the output
\* directory is there, no file is written and the counter stays 0; in every
\* run the directory is there before the first target starts.
C9_EmptyListSucceeds ==
  /\ (phase = "done" /\ hashes_to_remove # <<>> /\ siglistFile = ListFile(<<>>)) =>
       /\ files = <<>>
       /\ processed_sigs = 0
       /\ log = <<>>
       /\ io = "ok" => (outcome = "ok" /\ dir = "ensured")
  /\ begun # {} => dir = "ensured"

\* a finished successful run over an empty list
C9_Witness ==
  /\ phase = "done"
  /\ outcome = "ok"
  /\ siglistFile = ListFile(<<>>)
  /\ dir = "ensured"

\* C10: only the first record of a target file is used: a target without a
\* first record, or whose first record has no matching sketch, never gets an
\* output file and makes the run end in a panic, even when a later record
\* matches; what is written carries the first record only.
C10_FirstRecordOnly ==
  /\ \A idx \in begun : ~GoodTarget(idx) =>
       /\ idx \notin wrote
       /\ idx \in failed \/ \E w \in Threads : wk[w].pc = "began" /\ wk[w].idx = idx
       /\ phase = "done" => outcome = "panic"
  /\ \A w \in Threads : InClosure(w) =>
       wk[w].search_sig[1].name = TargetFile(wk[w].idx).sigs[1].name
  /\ \A n \in DOMAIN files : files[n].state = "full" =>
       \E idx \in wrote : OutName(idx) = n /\ files[n].sigs = <<ExpectedSig(idx)>>

\* a failed target whose only matching sketch is in its second record, and a
\* written target whose file has a second record
C10_Witness ==
  /\ io = "ok"
  /\ \E idx \in failed :
       /\ TargetFile(idx).ok
       /\ Len(TargetFile(idx).sigs) = 2
       /\ MatchAt(TargetFile(idx).sigs[1]) = {}
       /\ MatchAt(TargetFile(idx).sigs[2]) # {}
  /\ \E idx \in wrote :
       /\ Len(TargetFile(idx).sigs) = 2
       /\ FileAt(OutName(idx)).state = "full"

====
